---- MODULE Spec2Model ----
(***************************************************************************)
(* Birthday notification bot (tg-birthday-bot).                            *)
(*                                                                         *)
(* The repository holds several near-duplicate variants of one program.    *)
(* The model covers five of them, selected by the variable `variant`:      *)
(*   "health"         src/unnamed/part_000:1-367   Firebase store; the     *)
(*                    check runs from GET /health, guarded by              *)
(*                    lastCheckDate                                        *)
(*   "interval_try"   src/index.js:82-447          chat_members table;     *)
(*                    check at startup and every 24 h; try/catch around    *)
(*                    each sendMessage                                     *)
(*   "interval_plain" src/unnamed/part_001..003    as above, but only an   *)
(*                    outer try/catch around the whole check               *)
(*   "users_table"    src/unnamed/part_000:371-457 users table;            *)
(*                    checkUpcomingBirthdays, no try/catch at all          *)
(*   "lowdb"          src/index.js:1-81            lowdb file; sends are   *)
(*                    not awaited; check at startup and at 09:00           *)
(* Time is counted in calendar days of the configured zone; ZoneSpec        *)
(* counts it in hours.                                                     *)
(*                                                                         *)
(* Specifications:                                                         *)
(*   Spec            the checks over any store of records, with midnights  *)
(*                   and restarts                                          *)
(*   HealthLiveSpec  the "health" variant with fair settling of awaits     *)
(*   InputSpec       the text handlers filling an empty store, together    *)
(*                   with the checks                                       *)
(*   CalSpec         the checks started on any day of the calendar         *)
(*   DateSpec        dateUtils applied to input strings                    *)
(*   ZoneSpec        the GET /health and setInterval checks hour by hour   *)
(*                   in zones with and without daylight saving time        *)
(*   YearSpec        one record checked on every day of a calendar year    *)
(***************************************************************************)
EXTENDS Integers, Sequences, FiniteSets, TLC

\* ---- bounds of the model ------------------------------------------------
MaxChats == 2
MaxUsers == 2
MaxRecords == 2
MaxSlots == 2
MaxTriggers == 3
MaxTicks == 1
MaxRestarts == 1
MaxLen == 5
MaxSubmits == 2
MaxHours == 72

\* ---- program constants --------------------------------------------------
HorizonDays == 7

Variants == {"health", "interval_try", "interval_plain", "users_table", "lowdb"}
Chats == 1..MaxChats
Users == 1..MaxUsers
Slots == 1..MaxSlots
Kinds == {"today", "reminder"}
Null == [null |-> TRUE]

\* ---- text -----------------------------------------------------------------
\* A string is a sequence of characters; a character is a number: 0..9 are
\* the digits '0'..'9', Dot is '.', Comma is ',', Space is ' ' and Letter is
\* any other character.
Digits == 0..9
Dot == 10
Comma == 11
Space == 12
Letter == 13
\* no ISO date: the initial null of lastCheckDate; also no key
NoDate == <<>>

\* a string or null, as a value of one kind
NoString == [isNull |-> TRUE, str |-> <<>>]
Str(s) == [isNull |-> FALSE, str |-> s]

\* ---- dateUtils ------------------------------------------------------------
IsDigit(c) == c \in Digits

\* a cleaning that keeps the dots with the digits
RemoveNonDigits_KeepDot(input) ==
  SelectSeq(input, LAMBDA c : c \in Digits \/ c = Dot)

\* input.replace(/\D/g, '')
RemoveNonDigits(input) == SelectSeq(input, IsDigit)

\* a padStart that adds nothing
padStart2_NoPad(s) == s

\* s.padStart(2, '0')
padStart2(s) ==
  IF Len(s) >= 2 THEN s ELSE IF Len(s) = 1 THEN <<0>> \o s ELSE <<0, 0>>

\* a normalizer that reads three digits as a two-digit day and a month
normalizeDate_DayFirst(input) ==
  LET cleaned == RemoveNonDigits(input)
  IN IF Len(cleaned) = 3
       THEN Str(SubSeq(cleaned, 1, 2) \o <<Dot>>
                \o padStart2(SubSeq(cleaned, 3, 3)))
     ELSE IF Len(cleaned) = 4
       THEN Str(SubSeq(cleaned, 1, 2) \o <<Dot>>
                \o padStart2(SubSeq(cleaned, 3, 4)))
     ELSE IF Len(cleaned) = 2
       THEN Str(padStart2(cleaned) \o <<Dot, 0, 1>>)
     ELSE NoString

normalizeDate(input) ==
  LET cleaned == RemoveNonDigits(input)
  IN IF Len(cleaned) = 3
       THEN Str(padStart2(SubSeq(cleaned, 1, 1)) \o <<Dot>>
                \o padStart2(SubSeq(cleaned, 2, 3)))
     ELSE IF Len(cleaned) = 4
       THEN Str(SubSeq(cleaned, 1, 2) \o <<Dot>>
                \o padStart2(SubSeq(cleaned, 3, 4)))
     ELSE IF Len(cleaned) = 2
       THEN Str(padStart2(cleaned) \o <<Dot, 0, 1>>)
     ELSE NoString

\* dateStr.split('.'): the pieces between the dots
RECURSIVE Split(_)
Split(s) ==
  IF \A i \in 1..Len(s) : s[i] # Dot THEN <<s>>
  ELSE LET k == CHOOSE i \in 1..Len(s) :
                  s[i] = Dot /\ \A j \in 1..(i - 1) : s[j] # Dot
       IN <<SubSeq(s, 1, k - 1)>> \o Split(SubSeq(s, k + 1, Len(s)))

\* Number(s) of a string of digits (0 for the empty string); NaN for a piece
\* that is absent or holds another character. Every comparison with NaN is
\* false.
NaN == -1

RECURSIVE Decimal(_)
Decimal(s) ==
  IF s = <<>> THEN 0 ELSE 10 * Decimal(SubSeq(s, 1, Len(s) - 1)) + s[Len(s)]

Number(s) == IF \A i \in 1..Len(s) : IsDigit(s[i]) THEN Decimal(s) ELSE NaN

Less(a, b) == a # NaN /\ b # NaN /\ a < b

\* a validator that allows February 28 days
isValidDate_Feb28(dateStr) ==
  LET parts == Split(dateStr)
      day == Number(parts[1])
      month == IF Len(parts) >= 2 THEN Number(parts[2]) ELSE NaN
  IN IF Less(month, 1) \/ Less(12, month) THEN FALSE
     ELSE IF Less(day, 1) \/ Less(31, day) THEN FALSE
     ELSE IF month \in {4, 6, 9, 11} /\ Less(30, day) THEN FALSE
     ELSE IF month = 2 /\ Less(28, day) THEN FALSE
     ELSE TRUE

isValidDate(dateStr) ==
  LET parts == Split(dateStr)
      day == Number(parts[1])
      month == IF Len(parts) >= 2 THEN Number(parts[2]) ELSE NaN
  IN IF Less(month, 1) \/ Less(12, month) THEN FALSE
     ELSE IF Less(day, 1) \/ Less(31, day) THEN FALSE
     ELSE IF month \in {4, 6, 9, 11} /\ Less(30, day) THEN FALSE
     ELSE IF month = 2 /\ Less(29, day) THEN FALSE
     ELSE TRUE

\* ---- calendar arithmetic (luxon DateTime in the configured zone) --------
IsLeap(y) == (y % 4 = 0 /\ y % 100 # 0) \/ y % 400 = 0

\* a calendar whose February always has 28 days
DaysInMonth_NoLeap(y, m) ==
  IF m = 2 THEN 28
  ELSE IF m \in {4, 6, 9, 11} THEN 30 ELSE 31

DaysInMonth(y, m) ==
  IF m = 2 THEN (IF IsLeap(y) THEN 29 ELSE 28)
  ELSE IF m \in {4, 6, 9, 11} THEN 30 ELSE 31

NextDay(dt) ==
  IF dt.d < DaysInMonth(dt.y, dt.m) THEN [dt EXCEPT !.d = dt.d + 1]
  ELSE IF dt.m < 12 THEN [y |-> dt.y, m |-> dt.m + 1, d |-> 1]
  ELSE [y |-> dt.y + 1, m |-> 1, d |-> 1]

RECURSIVE PlusDays(_, _)
PlusDays(dt, k) == IF k = 0 THEN dt ELSE PlusDays(NextDay(dt), k - 1)

\* now.toFormat('dd.MM'): the year-agnostic key, the five characters of
\* the day and the month, each zero-padded to two digits
ToFormatDDMM(dt) ==
  <<dt.d \div 10, dt.d % 10, Dot, dt.m \div 10, dt.m % 10>>

\* now.toISODate(): the full calendar date 'YYYY-MM-DD', as <<YYYY, MM, DD>>
ToISODate(dt) == <<dt.y, dt.m, dt.d>>

StartDate == [y |-> 2024, m |-> 12, d |-> 28]

\* ---- record store --------------------------------------------------------
\* A record is [user_id, chat_id, birth_date]; birth_date is a string.
\* In the users_table and lowdb variants a record has no chat of its own:
\* the message goes to the user's id (private chat), so chat_id = user_id.
TestDates ==
  { ToFormatDDMM(StartDate), ToFormatDDMM(PlusDays(StartDate, HorizonDays)),
    ToFormatDDMM(NextDay(StartDate)) }

AllRecords == [user_id : Users, chat_id : Chats, birth_date : TestDates]

PrivateOnly(v) == v \in {"users_table", "lowdb"}

\* one record per (user_id, chat_id): the key of every variant's upsert
WellKeyed(S) ==
  \A a, b \in S : (a.user_id = b.user_id /\ a.chat_id = b.chat_id) => a = b

Stores(v) ==
  { S \in SUBSET AllRecords :
      /\ Cardinality(S) <= MaxRecords
      /\ WellKeyed(S)
      /\ PrivateOnly(v) => \A a \in S : a.chat_id = a.user_id }

\* ---- matching and the order of dispatch ---------------------------------
RECURSIVE SortedSeq(_)
SortedSeq(S) ==
  IF S = {} THEN <<>>
  ELSE LET x == CHOOSE a \in S : \A b \in S : a <= b
       IN <<x>> \o SortedSeq(S \ {x})

RECURSIVE Concat(_)
Concat(ss) == IF ss = <<>> THEN <<>> ELSE Head(ss) \o Concat(Tail(ss))

\* ---- the text of a message ---------------------------------------------
\* '@', and the words 'пользователя' and 'Пользователь'
At == 14
UserWord == 15
DefaultName == 16

\* ctx.from.username and ctx.from.first_name of the Telegram users: user 1
\* has the handle "a", user 2 has none (undefined), any further user has an
\* empty one; every user has a first name
FromUsername(u) ==
  IF u = 1 THEN Str(<<Letter>>) ELSE IF u = 2 THEN NoString ELSE Str(<<>>)
FromFirstName(u) == Str(<<Letter, Letter>>)

\* the truthiness of a string or null
Truthy(s) == ~s.isNull /\ s.str # <<>>

\* the fields a handler stores with the records of user u:
\*   part_000:246, index.js:314   username = ctx.from.username || null
\*   index.js:42, part_000:440    name = first_name || 'Пользователь'
StoredUsername(u) == IF Truthy(FromUsername(u)) THEN FromUsername(u) ELSE NoString
StoredName(u) ==
  IF Truthy(FromFirstName(u)) THEN FromFirstName(u).str ELSE <<DefaultName>>

\* String(n) of a positive integer
RECURSIVE StringOf(_)
StringOf(n) == IF n < 10 THEN <<n>> ELSE StringOf(n \div 10) \o <<n % 10>>

\* a mention that always uses the username
Mention_NoFallback(u) == <<At>> \o StoredUsername(u.user_id).str

\* part_000:291-293, index.js:365-367:
\*   u.username ? `@${u.username}` : `пользователя ${u.user_id}`
Mention(u) ==
  IF Truthy(StoredUsername(u.user_id))
    THEN <<At>> \o StoredUsername(u.user_id).str
    ELSE <<UserWord, Space>> \o StringOf(u.user_id)

\* a message that names the first matching record only
Dispatch_FirstOnly(chat, kind, users) ==
  LET u == CHOOSE a \in users : \A b \in users : a.user_id <= b.user_id
  IN [chat |-> chat, kind |-> kind, mentions |-> {u.user_id},
      names |-> <<Mention(u)>>]

\* One sendMessage: the chat, the kind of the message, the users it is about
\* and `names`, the array that map() builds from the matching records and
\* the message text joins with ', '
Dispatch(chat, kind, users) ==
  LET ids == SortedSeq({u.user_id : u \in users})
  IN [chat |-> chat, kind |-> kind, mentions |-> {u.user_id : u \in users},
      names |-> [i \in 1..Len(ids) |->
                   Mention(CHOOSE u \in users : u.user_id = ids[i])]]

\* index.js:25-28, part_000:403-412: the message to the user of the row
\* starts with `${user.name}`
DispatchPrivate(u, kind) ==
  [chat |-> u.user_id, kind |-> kind, mentions |-> {u.user_id},
   names |-> <<StoredName(u.user_id)>>]

\* part_000:283-321: for each chat, two independent filters; the today
\* message of a chat is sent before its reminder message
\* a filter that compares the month part of the key only
todayCelebrations_SameMonth(users, today) ==
  {u \in users : SubSeq(u.birth_date, 4, 5) = SubSeq(today, 4, 5)}

todayCelebrations(users, today) == {u \in users : u.birth_date = today}
upcomingCelebrations(users, in7Days) == {u \in users : u.birth_date = in7Days}

\* a check that sends one message per matching record instead of one per chat
PlanPerChat_PerRecord(records, today, in7Days) ==
  LET rs == SortedSeq({u.chat_id * (MaxUsers + 1) + u.user_id : u \in records})
      one(i) ==
        LET u == CHOOSE r \in records :
                   r.chat_id * (MaxUsers + 1) + r.user_id = i
        IN (IF u.birth_date = today
              THEN <<Dispatch(u.chat_id, "today", {u})>> ELSE <<>>)
           \o (IF u.birth_date = in7Days
              THEN <<Dispatch(u.chat_id, "reminder", {u})>> ELSE <<>>)
  IN Concat([i \in 1..Len(rs) |-> one(rs[i])])

PlanPerChat(records, today, in7Days) ==
  LET chatIds == SortedSeq({u.chat_id : u \in records})
      one(c) ==
        LET users == {u \in records : u.chat_id = c}
            t == todayCelebrations(users, today)
            n == upcomingCelebrations(users, in7Days)
        IN (IF t # {} THEN <<Dispatch(c, "today", t)>> ELSE <<>>)
           \o (IF n # {} THEN <<Dispatch(c, "reminder", n)>> ELSE <<>>)
  IN Concat([i \in 1..Len(chatIds) |-> one(chatIds[i])])

\* index.js:348-386, part_001..003: records are grouped by chat with
\* if / else-if; every today message is sent before any reminder message
GroupToday(records, today) == {u \in records : u.birth_date = today}
GroupUpcoming(records, today, in7Days) ==
  {u \in records : u.birth_date # today /\ u.birth_date = in7Days}

PlanGrouped(records, today, in7Days) ==
  LET t == GroupToday(records, today)
      n == GroupUpcoming(records, today, in7Days)
      tc == SortedSeq({u.chat_id : u \in t})
      nc == SortedSeq({u.chat_id : u \in n})
  IN [i \in 1..Len(tc) |->
        Dispatch(tc[i], "today", {u \in t : u.chat_id = tc[i]})]
     \o [i \in 1..Len(nc) |->
        Dispatch(nc[i], "reminder", {u \in n : u.chat_id = nc[i]})]

\* part_000:400-415: one message per row, if / else-if, sent to telegram_id
PlanPerUser(records, today, in7Days) ==
  LET ids == SortedSeq({u.user_id : u \in records})
      one(i) ==
        LET u == CHOOSE r \in records : r.user_id = i
        IN IF u.birth_date = today
             THEN <<DispatchPrivate(u, "today")>>
           ELSE IF u.birth_date = in7Days
             THEN <<DispatchPrivate(u, "reminder")>>
           ELSE <<>>
  IN Concat([i \in 1..Len(ids) |-> one(ids[i])])

\* index.js:23-30: only the today kind, one message per row, sent to user.id
PlanLowdb(records, today) ==
  LET ids == SortedSeq({u.user_id : u \in records})
      one(i) ==
        LET u == CHOOSE r \in records : r.user_id = i
        IN IF u.birth_date = today
             THEN <<DispatchPrivate(u, "today")>> ELSE <<>>
  IN Concat([i \in 1..Len(ids) |-> one(ids[i])])

Plan(v, records, today, in7Days) ==
  CASE v = "health" -> PlanPerChat(records, today, in7Days)
    [] v \in {"interval_try", "interval_plain"} ->
         PlanGrouped(records, today, in7Days)
    [] v = "users_table" -> PlanPerUser(records, today, in7Days)
    [] OTHER -> PlanLowdb(records, today)


\* ---- error handling of each variant --------------------------------------
\* What a rejected sendMessage does to the run that issued it:
\*   "continue"  caught by a try/catch around that send; the loop goes on
\*   "abort"     caught by the try/catch around the whole check; the run ends
\*   "throw"     caught nowhere; the promise of the check rejects
\*   "detached"  the send was never awaited; the rejection is unhandled
OnSendFailure(v) ==
  CASE v \in {"health", "interval_try"} -> "continue"
    [] v = "interval_plain" -> "abort"
    [] v = "users_table" -> "throw"
    [] OTHER -> "detached"

\* What a failed read of the record store does to the run: "return" (the
\* check logs and returns normally) or "throw" (the promise rejects)
OnReadFailure(v) == IF v = "lowdb" THEN "throw" ELSE "return"

\* a check that ignores the error of the read and goes on with the records
AfterRead_IgnoreError(v, ok) == "dispatch"

\* What the check does once the store read has settled: "dispatch" (go on
\* to match and send), "return" or "throw"
AfterRead(v, ok) == IF ok THEN "dispatch" ELSE OnReadFailure(v)

\* ---- state ----------------------------------------------------------------
VARIABLES
  variant,        \* which variant of the program runs
  clock,          \* current calendar date in the configured zone
  ticks,          \* midnights passed so far
  store,          \* the record store (persistent)
  boot,           \* number of restarts of the process so far
  triggers,       \* number of triggers handled so far (also numbers the runs)
  lastCheckDate,  \* part_000:48, in process memory
  timerDue,       \* date on which the setInterval / cron job fires next
  run,            \* per slot: a trigger being handled and its check
  floating,       \* sends issued without await, not yet settled
  log,            \* every sendMessage issued so far (history)
  failedKeys,     \* <<chat, kind, date>> whose sendMessage failed (history)
  doneDays,       \* dates for which a check has read the store and ended (history)
  unhandled,      \* an unhandled promise rejection has been produced
  text,           \* dateUtils under test: the input string
  normalized,     \*   the result of normalizeDate(text)
  valid,          \*   the result of isValidDate(normalized)
  dpc,            \*   how far the two functions have been applied
  handlers,       \* per user: the text handler of that user's message
  writes,         \* lowdb: the file writes queued, oldest first
  latest,         \* the date each (user, chat) submitted last (history)
  submits,        \* number of text messages received so far
  reply,          \* the last reply of a text handler
  zone,           \* hour-granular time: the configured zone (config.timezone)
  instant,        \*   hours since RefDate 00:00 UTC, or NoInstant
  timerAt,        \*   the instant at which setInterval fires next
  checked,        \*   the zone's date of every check started so far (history)
  startedDays,    \* dates on which a check called by GET /health has
                  \*   read the clock (history)
  guardedDays     \* dates lastCheckDate has been set to (history)

dateVars == <<text, normalized, valid, dpc>>
inputVars == <<handlers, writes, latest, submits, reply>>
zoneVars == <<zone, instant, timerAt, checked>>
histVars == <<startedDays, guardedDays>>
vars == <<variant, clock, ticks, store, boot, triggers, lastCheckDate,
          timerDue, run, floating, log, failedKeys, doneDays, unhandled,
          dateVars, inputVars, zoneVars, histVars>>

IdleRun ==
  [pc |-> "idle", rid |-> 0, trigger |-> "none", today |-> NoDate,
   now |-> Null,
   todayKey |-> NoDate, in7Key |-> NoDate, records |-> {}, grouped |-> {},
   sends |-> <<>>,
   queue |-> <<>>, cur |-> Null, matched |-> {}, issued |-> {}, failed |-> {},
   readFailed |-> FALSE, noData |-> FALSE, status |-> 0, outcome |-> "none",
   seq |-> FALSE, with |-> {}, failedAtStart |-> {}]

Active(rec) == rec.pc \in {"read", "send"}
Free(rec) == ~Active(rec)

NoInstant == -1
NotArmed == -1

\* a new trigger takes the lowest free slot
FreeSlot(r) == Free(run[r]) /\ \A q \in Slots : q < r => Active(run[q])

\* checkBirthdays starts: it reads the clock, derives today's key and (not
\* in the lowdb variant) the +7-day key, and awaits the store read
\* a +7-day key taken from `now` itself, the result of plus() being dropped
In7DaysKey_NoPlus(now) == ToFormatDDMM(now)

\* part_000:276: in7Days = now.plus({ days: 7 }).toFormat('dd.MM')
In7DaysKey(now) == ToFormatDDMM(PlusDays(now, HorizonDays))

StartRun(runs, r, rid, trig, today, now, failedBefore, doneBefore) ==
  [IdleRun EXCEPT
     !.pc = "read", !.rid = rid, !.trigger = trig, !.today = today,
     !.now = now,
     !.todayKey = ToFormatDDMM(now),
     !.in7Key = IF variant = "lowdb" THEN NoDate
                ELSE In7DaysKey(now),
     !.seq = now \in doneBefore,
     !.with = {runs[q].rid : q \in {s \in Slots :
                  /\ s # r /\ Active(runs[s])
                  /\ runs[s].trigger = "health" /\ runs[s].today = today}},
     !.failedAtStart = failedBefore]

LogEntry(rec, x, b) ==
  [chat |-> x.chat, kind |-> x.kind, mentions |-> x.mentions,
   day |-> rec.now, rid |-> rec.rid, boot |-> b, trigger |-> rec.trigger,
   seq |-> rec.seq, with |-> rec.with,
   retry |-> <<x.chat, x.kind, rec.now>> \in rec.failedAtStart]

\* the date on which the schedule first fires after a start on date `dt`
\*   interval_*: set by setInterval after the awaited startup check
\*   users_table: setInterval at load, 24 h later
\*   lowdb: cron 09:00, today if the process starts before 09:00
FirstDue(v, dt) ==
  CASE v = "health" -> {Null}
    [] v \in {"interval_try", "interval_plain"} -> {Null}
    [] v = "users_table" -> {NextDay(dt)}
    [] OTHER -> {dt, NextDay(dt)}

\* the slots right after the process has started: every variant but
\* "health" runs one check at startup
BootRuns(v, dt, rid, failedBefore, doneBefore) ==
  IF v = "health" THEN [r \in Slots |-> IdleRun]
  ELSE [r \in Slots |->
          IF r = 1
            THEN StartRun([s \in Slots |-> IdleRun], 1, rid, "startup",
                          NoDate, dt, failedBefore, doneBefore)
            ELSE IdleRun]

IdleHandler == [pc |-> "idle", chat |-> 0, birth_date |-> NoDate]
NoReply == [to |-> 0, kind |-> "none"]

\* no text message has been received yet
NoInput ==
  /\ handlers = [u \in Users |-> IdleHandler]
  /\ writes = <<>>
  /\ latest = {}
  /\ submits = 0
  /\ reply = NoReply

\* dateUtils is not under test
NoDateCall ==
  /\ text = <<>>
  /\ normalized = NoString
  /\ valid = FALSE
  /\ dpc = "off"

\* the program is started on the day dt, over one of the given stores
InitFrom(dt, stores) ==
  /\ variant \in Variants
  /\ clock = dt
  /\ ticks = 0
  /\ store \in stores
  /\ boot = 0
  /\ triggers = (IF variant = "health" THEN 0 ELSE 1)
  /\ lastCheckDate = NoDate
  /\ timerDue \in FirstDue(variant, clock)
  /\ run = BootRuns(variant, clock, 1, {}, {})
  /\ floating = {}
  /\ log = {}
  /\ failedKeys = {}
  /\ doneDays = {}
  /\ unhandled = FALSE
  /\ startedDays = {}
  /\ guardedDays = {}
  /\ NoInput

\* the program is started on the day dt, over any store of records or over
\* the empty one
InitAt(dt, emptyStore) ==
  InitFrom(dt, IF emptyStore THEN {{}} ELSE Stores(variant))

\* time is counted in days: the hour-granular variables are not used
DayGranular ==
  /\ zone = "Europe/Moscow"
  /\ instant = NoInstant
  /\ timerAt = NotArmed
  /\ checked = <<>>

Init == InitAt(StartDate, FALSE) /\ NoDateCall /\ DayGranular


\* a handler that answers 500 when the check met an error
HealthStatus_ErrorAware(rec, outcome) ==
  IF rec.readFailed \/ rec.failed # {} \/ outcome = "threw" THEN 500 ELSE 200

\* part_000:74: the status GET /health answers with, whatever the check did
HealthStatus(rec, outcome) == 200

\* ---- the end of a check ----------------------------------------------------
\* The check in slot r ends with record `rec` and outcome "returned" or
\* "threw"; the code that awaited it (or nobody) resumes:
\*   part_000:65-72     GET /health: lastCheckDate = today only after a
\*                      normal return; 200 is answered either way
\*   index.js:403-406   startup of interval_*: setInterval after the check
\*   otherwise          nobody awaits the check: a rejection is unhandled
Finish(r, rec, outcome) ==
  /\ run' = [run EXCEPT ![r] =
       [rec EXCEPT !.pc = "done", !.cur = Null, !.queue = <<>>,
                   !.outcome = outcome,
                   !.status = IF rec.trigger = "health"
                                THEN HealthStatus(rec, outcome) ELSE 0]]
  /\ lastCheckDate' =
       IF rec.trigger = "health" /\ outcome = "returned"
         THEN rec.today ELSE lastCheckDate
  /\ guardedDays' =
       IF rec.trigger = "health" /\ outcome = "returned"
         THEN guardedDays \cup {rec.today} ELSE guardedDays
  /\ timerDue' =
       IF /\ rec.trigger = "startup"
          /\ variant \in {"interval_try", "interval_plain"}
          /\ outcome = "returned"
         THEN NextDay(clock) ELSE timerDue
  /\ doneDays' = IF rec.readFailed THEN doneDays ELSE doneDays \cup {rec.now}
  /\ unhandled' = (unhandled \/ (outcome = "threw" /\ rec.trigger # "health"))

\* ---- triggers ---------------------------------------------------------------
\* part_000:51-88: GET /health.  The handler reads the date, compares it with
\* lastCheckDate and, if they differ, calls checkBirthdays, which reads the
\* clock again (midnight may fall between the two reads) and awaits the
\* store; otherwise it answers 200 at once.
HealthRequest(r) ==
  /\ variant = "health"
  /\ FreeSlot(r)
  /\ triggers < MaxTriggers
  /\ triggers' = triggers + 1
  /\ LET today == ToISODate(clock) IN
       IF lastCheckDate # today
         THEN \E midnight \in BOOLEAN :
                /\ midnight => (ticks < MaxTicks /\ instant = NoInstant)
                /\ clock' = IF midnight THEN NextDay(clock) ELSE clock
                /\ ticks' = IF midnight THEN ticks + 1 ELSE ticks
                /\ run' = [run EXCEPT ![r] =
                     StartRun(run, r, triggers + 1, "health", today, clock',
                              failedKeys, doneDays)]
         ELSE /\ run' = [run EXCEPT ![r] =
                   [IdleRun EXCEPT !.pc = "done", !.rid = triggers + 1,
                                   !.trigger = "health", !.today = today,
                                   !.status = HealthStatus(IdleRun, "skipped"),
                                   !.outcome = "skipped"]]
              /\ UNCHANGED <<clock, ticks>>
  /\ startedDays' = IF lastCheckDate # ToISODate(clock)
                      THEN startedDays \cup {ToISODate(clock')}
                      ELSE startedDays
  /\ UNCHANGED <<variant, store, boot, lastCheckDate, timerDue, floating,
                 log, failedKeys, doneDays, unhandled, guardedDays>>
  /\ UNCHANGED <<dateVars, inputVars, zoneVars>>

\* setInterval(checkBirthdays, 24 h) / scheduleJob('0 9 * * *'): the schedule
\* fires on the date it is due and is due again on the next date
TimerFire(r) ==
  /\ variant # "health"
  /\ timerDue = clock
  /\ FreeSlot(r)
  /\ triggers < MaxTriggers
  /\ triggers' = triggers + 1
  /\ timerDue' = NextDay(clock)
  /\ run' = [run EXCEPT ![r] =
       StartRun(run, r, triggers + 1, "timer", NoDate, clock,
                failedKeys, doneDays)]
  /\ UNCHANGED <<variant, clock, ticks, store, boot, lastCheckDate, floating,
                 log, failedKeys, doneDays, unhandled>>
  /\ UNCHANGED <<dateVars, inputVars, zoneVars, histVars>>

\* midnight passes in the configured zone; a schedule due today fires first
Tick ==
  /\ ticks < MaxTicks
  /\ timerDue # clock
  /\ clock' = NextDay(clock)
  /\ ticks' = ticks + 1
  /\ UNCHANGED <<variant, store, boot, triggers, lastCheckDate, timerDue, run,
                 floating, log, failedKeys, doneDays, unhandled>>
  /\ UNCHANGED <<dateVars, inputVars, zoneVars, histVars>>

\* the process is stopped and started again: memory is lost, the store is
\* kept, and the startup code runs
Restart ==
  /\ boot < MaxRestarts
  /\ variant # "health" => triggers < MaxTriggers
  /\ boot' = boot + 1
  /\ triggers' = IF variant = "health" THEN triggers ELSE triggers + 1
  /\ lastCheckDate' = NoDate
  /\ timerDue' \in FirstDue(variant, clock)
  /\ run' = BootRuns(variant, clock, triggers + 1, failedKeys, doneDays)
  /\ floating' = {}
  /\ startedDays' = {}
  /\ guardedDays' = {}
  /\ UNCHANGED <<variant, clock, ticks, store, log, failedKeys, doneDays,
                 unhandled>>
  /\ UNCHANGED <<dateVars, inputVars, zoneVars>>


\* ---- the check itself ------------------------------------------------------
\* The awaited store read settles (part_000:279, index.js:340, index.js:21).
\* On success the check matches the records against today's and the +7-day
\* key and issues its first sendMessage; the lowdb variant issues all of them
\* at once without awaiting and returns.
ReadSettle(r) ==
  /\ run[r].pc = "read"
  /\ \E ok \in BOOLEAN :
       LET rec == run[r]
           act == AfterRead(variant, ok)
           q == Plan(variant, store, rec.todayKey, rec.in7Key)
           all == {<<q[i].chat, q[i].kind>> : i \in 1..Len(q)}
           rec1 == [rec EXCEPT !.readFailed = ~ok,
                               !.noData = (ok /\ store = {}),
                               !.records = IF act = "dispatch" THEN store ELSE {},
                               !.grouped = IF act = "dispatch"
                                 THEN UNION {{<<q[i].kind, q[i].chat, u>> :
                                               u \in q[i].mentions} :
                                             i \in 1..Len(q)}
                                 ELSE {},
                               !.matched = IF act = "dispatch" THEN all ELSE {}]
       IN CASE act = "dispatch" /\ variant = "lowdb" ->
                 /\ floating' =
                      floating \cup {LogEntry(rec, q[i], boot) : i \in 1..Len(q)}
                 /\ log' = log \cup {LogEntry(rec, q[i], boot) : i \in 1..Len(q)}
                 /\ Finish(r, [rec1 EXCEPT !.issued = all, !.sends = q],
                           "returned")
            [] act = "dispatch" /\ variant # "lowdb" /\ q # <<>> ->
                 /\ run' = [run EXCEPT ![r] =
                      [rec1 EXCEPT !.pc = "send", !.cur = Head(q),
                                   !.queue = Tail(q), !.sends = <<Head(q)>>,
                                   !.issued = {<<Head(q).chat, Head(q).kind>>}]]
                 /\ log' = log \cup {LogEntry(rec, Head(q), boot)}
                 /\ UNCHANGED <<lastCheckDate, timerDue, doneDays, unhandled,
                                floating, guardedDays>>
            [] act = "dispatch" /\ variant # "lowdb" /\ q = <<>> ->
                 /\ Finish(r, rec1, "returned")
                 /\ UNCHANGED <<log, floating>>
            [] OTHER ->
                 /\ Finish(r, rec1, IF act = "throw" THEN "threw" ELSE "returned")
                 /\ UNCHANGED <<log, floating>>
  /\ UNCHANGED <<variant, clock, ticks, store, boot, triggers, failedKeys>>
  /\ UNCHANGED <<dateVars, inputVars, zoneVars, startedDays>>

\* a check that drops the records of a chat it could not send to
AfterSend_DropUnreachable(records, chat, ok) ==
  IF ok THEN records ELSE {u \in records : u.chat_id # chat}

\* The records after a sendMessage has settled: a rejected send is only
\* logged (part_000:295-297, index.js:370-372, index.js:25), the records
\* stay as they are
AfterSend(records, chat, ok) == records

\* The awaited sendMessage settles (part_000:294/310, index.js:368/379,
\* part_001:267/275, part_000:403/410).  The loop goes on to the next
\* dispatch, or the check ends.
SendSettle(r) ==
  /\ run[r].pc = "send"
  /\ \E ok \in BOOLEAN :
       LET rec == run[r]
           x == rec.cur
           rec1 == IF ok THEN rec
                   ELSE [rec EXCEPT !.failed = @ \cup {<<x.chat, x.kind>>}]
           goOn == ok \/ OnSendFailure(variant) = "continue"
       IN /\ failedKeys' = IF ok THEN failedKeys
                           ELSE failedKeys \cup {<<x.chat, x.kind, rec.now>>}
          /\ store' = AfterSend(store, x.chat, ok)
          /\ IF goOn /\ rec.queue # <<>>
               THEN LET y == Head(rec.queue) IN
                    /\ run' = [run EXCEPT ![r] =
                         [rec1 EXCEPT !.cur = y, !.queue = Tail(rec.queue),
                                      !.sends = Append(@, y),
                                      !.issued = @ \cup {<<y.chat, y.kind>>}]]
                    /\ log' = log \cup {LogEntry(rec, y, boot)}
                    /\ UNCHANGED <<lastCheckDate, timerDue, doneDays, unhandled,
                                   guardedDays>>
               ELSE /\ Finish(r, rec1,
                        IF ~goOn /\ OnSendFailure(variant) = "throw"
                          THEN "threw" ELSE "returned")
                    /\ UNCHANGED log
  /\ UNCHANGED <<variant, clock, ticks, boot, triggers, floating>>
  /\ UNCHANGED <<dateVars, inputVars, zoneVars, startedDays>>

\* a sendMessage that nobody awaits settles (index.js:25)
FloatSettle(f) ==
  /\ f \in floating
  /\ floating' = floating \ {f}
  /\ \E ok \in BOOLEAN :
       /\ unhandled' = (unhandled \/ ~ok)
       /\ failedKeys' = IF ok THEN failedKeys
                        ELSE failedKeys \cup {<<f.chat, f.kind, f.day>>}
       /\ store' = AfterSend(store, f.chat, ok)
  /\ UNCHANGED <<variant, clock, ticks, boot, triggers, lastCheckDate,
                 timerDue, run, log, doneDays>>
  /\ UNCHANGED <<dateVars, inputVars, zoneVars, histVars>>

\* ---- text messages ----------------------------------------------------------
\* A message is (user, chat, mention, body): who wrote it, where, whether it
\* starts with the bot's @name, and the trimmed text that follows the name
\* (the whole trimmed text when there is no name).
SubmitTexts ==
  { ToFormatDDMM(StartDate),                          \* 28.12
    ToFormatDDMM(PlusDays(StartDate, HorizonDays)),   \* 04.01
    <<2, 8, 1, 2>>,                                   \* 2812
    <<4, 0, 1>>,                                      \* 401
    <<9, 9, Dot, 9, 9>>,                              \* 99.99
    <<3, 1, Dot, 0, 4>>,                              \* 31.04
    <<Letter>> }

\* /^\d{2}\.\d{2}$/.test(s)
IsDDMM(s) ==
  /\ Len(s) = 5
  /\ IsDigit(s[1]) /\ IsDigit(s[2]) /\ s[3] = Dot
  /\ IsDigit(s[4]) /\ IsDigit(s[5])

\* s.replace(/^(\d{1,2})(\d{2})$/, '$1.$2') of a string of digits
InsertDot(s) ==
  IF Len(s) \in {3, 4}
    THEN SubSeq(s, 1, Len(s) - 2) \o <<Dot>> \o SubSeq(s, Len(s) - 1, Len(s))
    ELSE s

\* whether the date handler of the variant takes the message:
\*   part_000:232   bot.hears(@name\s+[0-9.,]+)
\*   index.js:300   if (!isBotMention(text)) return
\*   part_000:422, index.js:39   every text message
Hears(v, mention, body) ==
  CASE v = "health" ->
         mention /\ body # <<>> /\ body[1] \in Digits \cup {Dot, Comma}
    [] v \in {"interval_try", "interval_plain"} -> mention
    [] OTHER -> TRUE

\* the date the handler goes on to store, or null when it rejects the text:
\*   part_000:237-239, index.js:308-310   normalizeDate, then isValidDate
\*   part_000:427-433                      digits, dot inserted, DD.MM shape
\*   index.js:43-48                        DD.MM shape of the text itself
Accepted(v, body) ==
  CASE v \in {"health", "interval_try", "interval_plain"} ->
         LET n == normalizeDate(body)
         IN IF n.isNull \/ ~isValidDate(n.str) THEN NoString ELSE n
    [] v = "users_table" ->
         LET n == InsertDot(RemoveNonDigits(body))
         IN IF IsDDMM(n) THEN Str(n) ELSE NoString
    [] OTHER -> IF IsDDMM(body) THEN Str(body) ELSE NoString

\* a record keyed by the user alone, whatever chat the message came from
KeyChat_Private(v, u, c) == u

\* the chat a record is stored under: ctx.chat.id (part_000:246-247,
\* index.js:316-317); the users table and the lowdb file hold the user's id
\* only, and the check sends to that id
KeyChat(v, u, c) == IF PrivateOnly(v) THEN u ELSE c

\* set / upsert on the key (user_id, chat_id); findIndex, then update or push
Upsert(records, rec) ==
  {x \in records : ~(x.user_id = rec.user_id /\ x.chat_id = rec.chat_id)}
    \cup {rec}

RecordOf(u, h) ==
  [user_id |-> u, chat_id |-> KeyChat(variant, u, h.chat),
   birth_date |-> h.birth_date]

\* the handler of user u has stored its date and replies
Saved(u, h) ==
  /\ handlers' = [handlers EXCEPT ![u] = IdleHandler]
  /\ reply' = [to |-> h.chat, kind |-> "saved"]
  /\ latest' =
       {l \in latest : ~(l.user_id = u
                          /\ l.chat_id = KeyChat(variant, u, h.chat))}
         \cup {[user_id |-> u, chat_id |-> KeyChat(variant, u, h.chat),
                 birth_date |-> h.birth_date, in |-> h.chat]}

\* the store call of the handler of user u has failed; the handler replies
NotSaved(u, h) ==
  /\ handlers' = [handlers EXCEPT ![u] = IdleHandler]
  /\ reply' = [to |-> h.chat, kind |-> "error"]
  /\ UNCHANGED latest

\* A text message arrives and its handler runs up to its first await.
TextMessage(u, c, mention, body) ==
  /\ submits < MaxSubmits
  /\ handlers[u].pc = "idle"
  /\ submits' = submits + 1
  /\ IF ~Hears(variant, mention, body)
       THEN UNCHANGED <<handlers, reply>>
     ELSE IF Accepted(variant, body).isNull
       THEN /\ reply' = [to |-> c, kind |-> "rejected"]
            /\ UNCHANGED handlers
     ELSE /\ handlers' = [handlers EXCEPT ![u] =
               [pc |-> IF variant = "lowdb" THEN "read" ELSE "upsert",
                chat |-> c, birth_date |-> Accepted(variant, body).str]]
          /\ UNCHANGED reply
  /\ UNCHANGED <<variant, clock, ticks, store, boot, triggers, lastCheckDate,
                 timerDue, run, floating, log, failedKeys, doneDays, unhandled,
                 dateVars, zoneVars, histVars, writes, latest>>

\* index.js:51-60: db.read() has settled; the handler updates or pushes its
\* record in the data just read and calls db.write()
HandlerRead(u) ==
  /\ handlers[u].pc = "read"
  /\ handlers' = [handlers EXCEPT ![u].pc = "write"]
  /\ writes' = Append(writes,
                 [by |-> u, data |-> Upsert(store, RecordOf(u, handlers[u]))])
  /\ UNCHANGED <<variant, clock, ticks, store, boot, triggers, lastCheckDate,
                 timerDue, run, floating, log, failedKeys, doneDays, unhandled,
                 dateVars, zoneVars, histVars, latest, submits, reply>>

\* index.js:60-61: the oldest queued write reaches the file (or fails) and
\* the handler that issued it replies
WriteSettle ==
  /\ writes # <<>>
  /\ writes' = Tail(writes)
  /\ LET w == Head(writes) IN
     \E ok \in BOOLEAN :
       IF ok THEN store' = w.data /\ Saved(w.by, handlers[w.by])
       ELSE UNCHANGED store /\ NotSaved(w.by, handlers[w.by])
  /\ UNCHANGED <<variant, clock, ticks, boot, triggers, lastCheckDate,
                 timerDue, run, floating, log, failedKeys, doneDays, unhandled,
                 dateVars, zoneVars, histVars, submits>>

\* part_000:245-250, index.js:315-320, part_000:436-448: the awaited upsert
\* settles and the handler replies
UpsertSettle(u) ==
  /\ handlers[u].pc = "upsert"
  /\ \E ok \in BOOLEAN :
       IF ok THEN /\ store' = Upsert(store, RecordOf(u, handlers[u]))
                  /\ Saved(u, handlers[u])
       ELSE UNCHANGED store /\ NotSaved(u, handlers[u])
  /\ UNCHANGED <<variant, clock, ticks, boot, triggers, lastCheckDate,
                 timerDue, run, floating, log, failedKeys, doneDays, unhandled,
                 dateVars, zoneVars, histVars, writes, submits>>

\* ---- specifications ------------------------------------------------------------------------------------------------------------
Next ==
  \/ \E r \in Slots : HealthRequest(r)
  \/ \E r \in Slots : TimerFire(r)
  \/ \E r \in Slots : ReadSettle(r)
  \/ \E r \in Slots : SendSettle(r)
  \/ \E f \in floating : FloatSettle(f)
  \/ Tick
  \/ Restart

Spec == Init /\ [][Next]_vars

\* The health-triggered variant in a process that keeps running, where every
\* awaited I/O call eventually settles.
HealthInit == Init /\ variant = "health"

HealthNext ==
  \/ \E r \in Slots : HealthRequest(r)
  \/ \E r \in Slots : ReadSettle(r)
  \/ \E r \in Slots : SendSettle(r)
  \/ Tick

HealthLiveSpec ==
  /\ HealthInit
  /\ [][HealthNext]_vars
  /\ \A r \in Slots : WF_vars(ReadSettle(r)) /\ WF_vars(SendSettle(r))


\* ---- claims ----------------------------------------------------------------
SameOccurrence(e1, e2) ==
  /\ e1.chat = e2.chat /\ e1.kind = e2.kind /\ e1.day = e2.day
  /\ e1.mentions \cap e2.mentions # {}

\* C1: redundant runs are idempotent: a run of checkBirthdays that starts
\* after another run for the same day has completed dispatches nothing.
C1_SecondRunDispatchesNothing ==
  variant \in {"health", "interval_try"} => \A e \in log : ~e.seq

\* C2: overlapping triggers do not double-dispatch: a GET /health request
\* handled while another one is still awaiting checkBirthdays on the same
\* calendar day never sends a message the other one also sends.
C2_NoOverlapDoubleDispatch ==
  \A e1, e2 \in log :
    (e1.rid \in e2.with /\ e1.rid # e2.rid) => ~SameOccurrence(e1, e2)

\* C3: exactly-once survives restarts: an occurrence (record, day, kind)
\* dispatched before a restart is not dispatched again after it.
C3_NoRedispatchAfterRestart ==
  \A e1, e2 \in log : e1.boot < e2.boot => ~SameOccurrence(e1, e2)

\* C4: cross-channel isolation: in every variant of checkBirthdays, when a
\* send to one chat has failed, every other chat with a matching record has
\* had its message dispatched by the time the run ends.
C4_CrossChannelIsolation ==
  variant # "users_table" =>
    \A r \in Slots :
      run[r].pc = "done" =>
        \A f \in run[r].failed : \A m \in run[r].matched :
          m[1] # f[1] => m \in run[r].issued

\* C5: a transport failure does not abort the run: after a failed send every
\* remaining dispatch of the run, the reminders included, is still attempted.
C5_FailureDoesNotAbort ==
  variant \in {"interval_try", "interval_plain"} =>
    \A r \in Slots :
      (run[r].pc = "done" /\ run[r].failed # {}) =>
        run[r].matched \subseteq run[r].issued

\* C6: at most one attempt per occurrence per kind, also on failure: no
\* trigger that arrives after a send to a chat has failed for a day and kind
\* attempts that chat again for that day and kind.
C6_NoRetryAfterFailure ==
  variant = "health" => \A e \in log : ~e.retry

\* C7: no exception or rejected promise escapes a run: every check completes
\* normally and no unhandled rejection is produced.
C7_NothingEscapes ==
  /\ ~unhandled
  /\ \A r \in Slots : run[r].outcome # "threw"

\* C8: when the store read fails or returns no data, the run sends nothing.
C8_ReadFailureSendsNothing ==
  \A r \in Slots :
    (run[r].readFailed \/ run[r].noData) =>
      (run[r].issued = {} /\ \A e \in log : e.rid # run[r].rid)

\* C8 witness: a check whose read failed has ended although a record in the
\* store matches its date.
C8_Witness ==
  \E r \in Slots :
    /\ run[r].pc = "done" /\ run[r].readFailed
    /\ Plan(variant, store, ToFormatDDMM(run[r].now),
            ToFormatDDMM(PlusDays(run[r].now, HorizonDays))) # <<>>

\* C9: a run that failed on the record store is retried by the next trigger:
\* a GET /health whose check could not read the records does not record the
\* day as checked.
C9_FailedReadNotRecorded ==
  [][\A r \in Slots :
       (/\ run[r].pc = "read" /\ run[r].trigger = "health"
        /\ run'[r].pc = "done" /\ run'[r].readFailed)
       => lastCheckDate' = lastCheckDate]_vars

\* C10: the trigger always answers: every GET /health request eventually
\* receives a 200 response, whether the check ran and succeeded, ran and
\* failed, or was skipped.
C10_AlwaysAnswers ==
  /\ [](\A r \in Slots :
          (run[r].trigger = "health" /\ run[r].pc = "done")
            => run[r].status = 200)
  /\ \A n \in 1..MaxTriggers :
       (\E r \in Slots : run[r].rid = n /\ Active(run[r]))
         ~> (\E r \in Slots :
               run[r].rid = n /\ run[r].pc = "done" /\ run[r].status = 200)

\* C10 witness: a GET /health request has been answered 200 after its check
\* met a failed store read or a failed send.
C10_Witness ==
  \E r \in Slots :
    /\ run[r].trigger = "health" /\ run[r].pc = "done" /\ run[r].status = 200
    /\ (run[r].readFailed \/ run[r].failed # {})


\* ---- the program with its text handlers ------------------------------------
\* the program is started with an empty store; records come from messages
InputInit == InitAt(StartDate, TRUE) /\ NoDateCall /\ DayGranular

InputNext ==
  \/ \E u \in Users : \E c \in Chats : \E mention \in BOOLEAN :
       \E body \in SubmitTexts : TextMessage(u, c, mention, body)
  \/ \E u \in Users : HandlerRead(u)
  \/ WriteSettle
  \/ \E u \in Users : UpsertSettle(u)
  \/ \E r \in Slots : HealthRequest(r)
  \/ \E r \in Slots : TimerFire(r)
  \/ \E r \in Slots : ReadSettle(r)
  \/ \E r \in Slots : SendSettle(r)
  \/ \E f \in floating : FloatSettle(f)

InputSpec == InputInit /\ [][InputNext]_vars

\* ---- dateUtils applied to input strings --------------------------------------
\* The strings the two functions are applied to: every string of at most
\* MaxLen characters over two digits, the dot and a letter; every DD.MM and
\* every D.MM over all ten digits.
RECURSIVE StringsOver(_, _)
StringsOver(A, n) ==
  IF n = 0 THEN {<<>>}
  ELSE LET shorter == StringsOver(A, n - 1)
       IN shorter \cup {Append(t, c) : t \in shorter, c \in A}

Texts ==
  StringsOver({1, 2, Dot, Letter}, MaxLen)
    \cup {<<a, b, Dot, c, d>> : a \in Digits, b \in Digits,
                                c \in Digits, d \in Digits}
    \cup {<<a, Dot, c, d>> : a \in Digits, c \in Digits, d \in Digits}

DateInit ==
  /\ InitAt(StartDate, TRUE)
  /\ DayGranular
  /\ variant = "health"
  /\ text \in Texts
  /\ normalized = NoString
  /\ valid = FALSE
  /\ dpc = "input"

\* part_000:238: const normalizedDate = dateUtils.normalizeDate(cleanText)
Normalize ==
  /\ dpc = "input"
  /\ normalized' = normalizeDate(text)
  /\ dpc' = "normalized"
  /\ UNCHANGED <<variant, clock, ticks, store, boot, triggers, lastCheckDate,
                 timerDue, run, floating, log, failedKeys, doneDays, unhandled,
                 text, valid, inputVars, zoneVars, histVars>>

\* part_000:240: !normalizedDate || !dateUtils.isValidDate(normalizedDate)
Validate ==
  /\ dpc = "normalized"
  /\ ~normalized.isNull
  /\ valid' = isValidDate(normalized.str)
  /\ dpc' = "validated"
  /\ UNCHANGED <<variant, clock, ticks, store, boot, triggers, lastCheckDate,
                 timerDue, run, floating, log, failedKeys, doneDays, unhandled,
                 text, normalized, inputVars, zoneVars, histVars>>

DateNext == Normalize \/ Validate

DateSpec == DateInit /\ [][DateNext]_vars

\* the positions of the digits of a string, and its k-th digit
DigitPositions(t) == {i \in 1..Len(t) : t[i] \in 0..9}
NthDigit(t, k) ==
  t[CHOOSE i \in DigitPositions(t) :
      Cardinality({j \in DigitPositions(t) : j < i}) = k - 1]

\* C15: normalizeDate maps an input by the number of its digits: four digits
\* d1 d2 m1 m2 give d1d2.m1m2, three digits d m1 m2 give 0d.m1m2, two digits
\* d1 d2 give d1d2.01, and any other number of digits gives null
C15_NormalizeByDigitCount ==
  dpc \in {"normalized", "validated"} =>
    LET n == Cardinality(DigitPositions(text))
        D(k) == NthDigit(text, k)
    IN /\ (n = 4 => normalized = Str(<<D(1), D(2), Dot, D(3), D(4)>>))
       /\ (n = 3 => normalized = Str(<<0, D(1), Dot, D(2), D(3)>>))
       /\ (n = 2 => normalized = Str(<<D(1), D(2), Dot, 0, 1>>))
       /\ (n \notin {2, 3, 4} => normalized = NoString)

\* three digits with other characters between them were normalized
C15_Witness ==
  /\ dpc = "normalized"
  /\ text = <<Letter, 2, Dot, 1, 2>>
  /\ normalized = Str(<<0, 2, Dot, 1, 2>>)

\* C16: isValidDate accepts a DD.MM string if and only if its month is in
\* 1..12, its day is in 1..31, at most 30 in months 4, 6, 9 and 11, and at
\* most 29 in month 2; 29.02 and 31.12 are accepted, 30.02 and 31.04 are not
C16_ValidIffInCalendar ==
  dpc = "validated" =>
    LET t == normalized.str
        day == 10 * t[1] + t[2]
        month == 10 * t[4] + t[5]
    IN /\ valid <=> (/\ month \in 1..12
                      /\ day \in 1..31
                      /\ (month \in {4, 6, 9, 11} => day <= 30)
                      /\ (month = 2 => day <= 29))
       /\ (t = <<2, 9, Dot, 0, 2>> => valid)
       /\ (t = <<3, 1, Dot, 1, 2>> => valid)
       /\ (t = <<3, 0, Dot, 0, 2>> => ~valid)
       /\ (t = <<3, 1, Dot, 0, 4>> => ~valid)

\* 29.02 was validated and accepted
C16_Witness ==
  /\ dpc = "validated"
  /\ normalized = Str(<<2, 9, Dot, 0, 2>>)
  /\ valid

\* ---- the +7-day key ----------------------------------------------------------
\* The calendar by day numbers: the lengths of the months of a year, the
\* number of a day within its year, and the date of the n-th day counted
\* from the start of year y (running into the following years).
CalYears == {2023, 2024}

MonthLengths(y) ==
  <<31, IF IsLeap(y) THEN 29 ELSE 28, 31, 30, 31, 30, 31, 31, 30, 31, 30, 31>>

RECURSIVE DaysBefore(_, _)
DaysBefore(y, m) ==
  IF m = 1 THEN 0 ELSE DaysBefore(y, m - 1) + MonthLengths(y)[m - 1]

YearLength(y) == DaysBefore(y, 12) + 31

DayOfYear(dt) == DaysBefore(dt.y, dt.m) + dt.d

RECURSIVE FromDayOfYear(_, _)
FromDayOfYear(y, n) ==
  IF n > YearLength(y) THEN FromDayOfYear(y + 1, n - YearLength(y))
  ELSE LET m == CHOOSE k \in 1..12 :
                  DaysBefore(y, k) < n /\ n <= DaysBefore(y, k) + MonthLengths(y)[k]
       IN [y |-> y, m |-> m, d |-> n - DaysBefore(y, m)]

\* every day of a non-leap and of a leap year, and 22 February of the
\* century years 2000 (leap) and 2100 (not leap)
CalDates ==
  {FromDayOfYear(y, n) : y \in CalYears, n \in 1..365}
    \cup {FromDayOfYear(y, YearLength(y)) : y \in CalYears}
    \cup {[y |-> 2000, m |-> 2, d |-> 22], [y |-> 2100, m |-> 2, d |-> 22]}

\* the program started on any of these days, with no record stored
CalInit == \E dt \in CalDates : InitAt(dt, TRUE) /\ NoDateCall /\ DayGranular

CalNext ==
  \/ \E r \in Slots : HealthRequest(r)
  \/ \E r \in Slots : TimerFire(r)
  \/ \E r \in Slots : ReadSettle(r)

CalSpec == CalInit /\ [][CalNext]_vars

\* C13: the +7-day key of a run is the DD.MM of the calendar date seven days
\* after the day the run read the clock, across month ends, the year end and
\* 29 February: 28.12 gives 04.01, 22.02 gives 29.02 in a leap year and 01.03
\* in any other year
C13_Plus7IsCalendarArithmetic ==
  \A r \in Slots : run[r].in7Key # NoDate =>
    LET now == run[r].now
        key == run[r].in7Key
    IN /\ key = ToFormatDDMM(FromDayOfYear(now.y, DayOfYear(now) + 7))
       /\ (now.d = 28 /\ now.m = 12) => key = <<0, 4, Dot, 0, 1>>
       /\ (now.d = 22 /\ now.m = 2 /\ IsLeap(now.y)) => key = <<2, 9, Dot, 0, 2>>
       /\ (now.d = 22 /\ now.m = 2 /\ ~IsLeap(now.y)) => key = <<0, 1, Dot, 0, 3>>

\* a run that read the clock on 22 February of a leap year and derived 29.02
C13_Witness ==
  \E r \in Slots :
    /\ run[r].in7Key # NoDate
    /\ run[r].now = [y |-> 2024, m |-> 2, d |-> 22]
    /\ run[r].in7Key = <<2, 9, Dot, 0, 2>>

\* ---- aggregation and matching ---------------------------------------------
\* the key of a kind on the day a run read the clock
KeyOf(kind, now) ==
  IF kind = "today" THEN ToFormatDDMM(now)
  ELSE ToFormatDDMM(PlusDays(now, HorizonDays))

\* how many sendMessage calls of a run went to a chat with a kind
SendCount(rec, c, k) ==
  Cardinality({i \in 1..Len(rec.sends) :
                 rec.sends[i].chat = c /\ rec.sends[i].kind = k})

\* the runs of the chat-keyed checks that read the store and ran to the end
Completed(r) ==
  /\ variant \in {"health", "interval_try"}
  /\ run[r].pc = "done"
  /\ ~run[r].readFailed

\* C11: in a run that completes, a chat is sent exactly one message of a kind
\* if it has at least one record whose birth_date equals the key of that kind,
\* and no message of that kind otherwise
C11_OneAggregatePerChatPerKind ==
  \A r \in Slots : Completed(r) =>
    \A c \in Chats : \A k \in Kinds :
      SendCount(run[r], c, k) =
        IF \E u \in run[r].records :
             u.chat_id = c /\ u.birth_date = KeyOf(k, run[r].now)
          THEN 1 ELSE 0

\* a completed run over a chat with two records of today and a chat with none
C11_Witness ==
  \E r \in Slots : \E c, d \in Chats :
    /\ Completed(r)
    /\ Cardinality({u \in run[r].records :
                      u.chat_id = c
                      /\ u.birth_date = KeyOf("today", run[r].now)}) = 2
    /\ SendCount(run[r], c, "today") = 1
    /\ \A u \in run[r].records : u.chat_id # d
    /\ SendCount(run[r], d, "today") + SendCount(run[r], d, "reminder") = 0

\* the records of a kind's group, rebuilt from the records the run read
ExactGroup(rec, k) ==
  {<<k, u.chat_id, u.user_id>> :
     u \in {x \in rec.records : x.birth_date = KeyOf(k, rec.now)}}

\* C12: once a run has read the records, its today group is exactly the
\* records whose birth_date equals today's key, its upcoming group is exactly
\* the records whose birth_date equals the +7-day key, and a record equal to
\* neither key is in no group
C12_ExactKeyEquality ==
  \A r \in Slots :
    (variant # "lowdb" /\ run[r].pc \in {"send", "done"}
       /\ ~run[r].readFailed) =>
      run[r].grouped = ExactGroup(run[r], "today")
                         \cup ExactGroup(run[r], "reminder")

\* a run grouped one record as today and left out a record of the same chat
\* and the same month whose day is another one
C12_Witness ==
  \E r \in Slots : \E u, w \in run[r].records :
    /\ run[r].pc \in {"send", "done"} /\ ~run[r].readFailed
    /\ variant # "lowdb"
    /\ u.chat_id = w.chat_id
    /\ <<"today", u.chat_id, u.user_id>> \in run[r].grouped
    /\ SubSeq(w.birth_date, 4, 5) = SubSeq(u.birth_date, 4, 5)
    /\ SubSeq(w.birth_date, 1, 2) # SubSeq(u.birth_date, 1, 2)
    /\ \A k \in Kinds : <<k, w.chat_id, w.user_id>> \notin run[r].grouped
\* ---- stored records -----------------------------------------------------------
\* a DD.MM string whose month is 1..12 and whose day is within 1 and the
\* longest that month can be
CanonicalValid(d) ==
  /\ IsDDMM(d)
  /\ LET day == 10 * d[1] + d[2]
         month == 10 * d[4] + d[5]
     IN /\ month \in 1..12
        /\ day >= 1
        /\ day <= MonthLengths(2024)[month]

\* a text message was received and no handler was left working on it
Dismissed == submits' # submits /\ handlers' = handlers

\* C14: whatever text messages arrive, every birth_date in the store is a
\* DD.MM string that passes the validation rules, and a message that is
\* rejected causes no write and leaves the store as it was
C14_StoredDatesAlwaysValid ==
  [][ /\ \A rec \in store' : CanonicalValid(rec.birth_date)
      /\ Dismissed => UNCHANGED <<store, writes>> ]_vars

\* C17: the store holds at most one record for each (user_id, chat_id), and
\* for every pair that has saved a date it still holds the record with the
\* date that pair saved last
C17_OneRecordPerPair ==
  /\ WellKeyed(store)
  /\ \A l \in latest :
       [user_id |-> l.user_id, chat_id |-> l.chat_id,
        birth_date |-> l.birth_date] \in store

\* the variants whose records are keyed by the chat of the message
ChatKeyed == variant \in {"health", "interval_try", "interval_plain"}

\* C18: every message a check sends to a chat mentions only users who saved
\* their date by a message in that chat
C18_SentToChatOfRegistration ==
  ChatKeyed =>
    \A e \in log : \A m \in e.mentions :
      \E l \in latest : l.user_id = m /\ l.in = e.chat

\* a message was sent to a chat for a user whose own id is another one and
\* who had saved the date in that chat
C18_Witness ==
  /\ ChatKeyed
  /\ \E e \in log : \E m \in e.mentions :
       /\ m # e.chat
       /\ \E l \in latest : l.user_id = m /\ l.in = e.chat

\* a step of a check: a trigger is taken, a read or a send settles
CheckStep == run' # run \/ floating' # floating

\* C19: no step of a check, whatever the outcome of its sends, creates,
\* changes or deletes a record
C19_CheckOnlyReads == [][CheckStep => store' = store]_vars

\* a check has had a send rejected and the records are all still there
C19_Witness ==
  /\ store # {}
  /\ \E r \in Slots : run[r].pc = "done" /\ run[r].failed # {}
  /\ \A l \in latest :
       [user_id |-> l.user_id, chat_id |-> l.chat_id,
        birth_date |-> l.birth_date] \in store

\* the sends of the run numbered rid that have not settled yet
InFlight(rid) ==
  Cardinality({f \in floating : f.rid = rid})
    + Cardinality({r \in Slots : run[r].rid = rid /\ run[r].pc = "send"})

\* C20: a run has at most one sendMessage in flight at any moment, and it
\* ends only after every send it issued has settled
C20_SendsAreSequential ==
  \A r \in Slots : run[r].pc # "idle" =>
    /\ InFlight(run[r].rid) <= 1
    /\ run[r].pc = "done" => InFlight(run[r].rid) = 0

\* ---- hour-granular time ------------------------------------------------------
\* config.timezone = process.env.TIMEZONE || 'Europe/Moscow' (index.js:106,
\* part_000:15, part_002:12): a zone without daylight saving time and two
\* zones observed around a change of their offset.  An instant is a number of
\* hours since 00:00 UTC of the zone's reference date.
Zones == {"Europe/Moscow", "Europe/Berlin", "Australia/Sydney"}

RefDate(z) ==
  CASE z = "Europe/Moscow" -> [y |-> 2024, m |-> 3, d |-> 30]
    [] z = "Europe/Berlin" -> [y |-> 2024, m |-> 3, d |-> 30]
    [] z = "Australia/Sydney" -> [y |-> 2024, m |-> 4, d |-> 6]

\* the zone's offset from UTC, in hours:
\*   Europe/Berlin      +1 until 2024-03-31T01:00Z, then +2 (a 23-hour day)
\*   Australia/Sydney   +11 until 2024-04-06T16:00Z, then +10 (a 25-hour day)
Offset(z, t) ==
  CASE z = "Europe/Moscow" -> 3
    [] z = "Europe/Berlin" -> IF t < 25 THEN 1 ELSE 2
    [] z = "Australia/Sydney" -> IF t < 16 THEN 11 ELSE 10

\* 24 * 60 * 60 * 1000 ms, in hours
IntervalHours == 24

\* DateTime.now(): the calendar date in UTC
UTCDate(z, t) == PlusDays(RefDate(z), t \div 24)

\* a clock that is never moved to the configured zone
setZone_UTC(z, t) == PlusDays(RefDate(z), t \div 24)

\* DateTime.now().setZone(z): the calendar date in zone z
setZone(z, t) == PlusDays(RefDate(z), (t + Offset(z, t)) \div 24)

\* The variants whose check is driven by GET /health or by setInterval, in a
\* process started at any hour of the reference date, with an empty store.
ZoneVariants == {"health", "interval_try", "interval_plain"}
StartInstants == 0..23

ZoneInit ==
  /\ zone \in Zones
  /\ instant \in StartInstants
  /\ InitAt(setZone(zone, instant), TRUE)
  /\ variant \in ZoneVariants
  /\ NoDateCall
  /\ timerAt = NotArmed
  /\ checked = IF variant = "health" THEN <<>> ELSE <<ToISODate(clock)>>

\* the awaited startup check has returned normally
StartupReturned ==
  \E r \in Slots : /\ run[r].trigger = "startup" /\ run[r].pc = "done"
                   /\ run[r].outcome = "returned"

\* index.js:406, part_002:307: after the awaited startup check,
\* setInterval(checkBirthdays, 24 * 60 * 60 * 1000) arms the timer
ArmInterval ==
  /\ variant \in {"interval_try", "interval_plain"}
  /\ instant # NoInstant
  /\ timerAt = NotArmed
  /\ StartupReturned
  /\ timerAt' = instant + IntervalHours
  /\ UNCHANGED <<variant, clock, ticks, store, boot, triggers, lastCheckDate,
                 timerDue, run, floating, log, failedKeys, doneDays, unhandled,
                 zone, instant, checked>>
  /\ UNCHANGED <<dateVars, inputVars, histVars>>

\* the timer fires 24 hours after it was armed or has fired, and
\* checkBirthdays reads the clock (part_002:251-254)
IntervalFire(r) ==
  /\ instant # NoInstant
  /\ timerAt = instant
  /\ FreeSlot(r)
  /\ triggers < MaxTriggers
  /\ triggers' = triggers + 1
  /\ timerAt' = timerAt + IntervalHours
  /\ run' = [run EXCEPT ![r] =
       StartRun(run, r, triggers + 1, "timer", NoDate, clock,
                failedKeys, doneDays)]
  /\ checked' = Append(checked, ToISODate(clock))
  /\ UNCHANGED <<variant, clock, ticks, store, boot, lastCheckDate, timerDue,
                 floating, log, failedKeys, doneDays, unhandled, zone, instant>>
  /\ UNCHANGED <<dateVars, inputVars, histVars>>

\* An hour passes.  A check takes far less than an hour: the hour passes
\* while no check is running, after a timer that is due has fired and after
\* the startup code has armed the timer.
HourPasses ==
  /\ instant # NoInstant
  /\ instant < MaxHours
  /\ instant # timerAt
  /\ \A r \in Slots : Free(run[r])
  /\ ~ENABLED ArmInterval
  /\ instant' = instant + 1
  /\ clock' = setZone(zone, instant + 1)
  /\ ticks' = IF clock' # clock THEN ticks + 1 ELSE ticks
  /\ UNCHANGED <<variant, store, boot, triggers, lastCheckDate, timerDue, run,
                 floating, log, failedKeys, doneDays, unhandled, zone, timerAt,
                 checked>>
  /\ UNCHANGED <<dateVars, inputVars, histVars>>

ZoneNext ==
  \/ \E r \in Slots : HealthRequest(r)
  \/ \E r \in Slots : ReadSettle(r)
  \/ ArmInterval
  \/ \E r \in Slots : IntervalFire(r)
  \/ HourPasses

ZoneSpec == ZoneInit /\ [][ZoneNext]_vars

\* C21: in the variants that run checkBirthdays at startup and then every 24
\* hours, a process that keeps running checks every calendar date of the
\* configured zone exactly once: each check falls on the date after the date
\* of the check before it, in every zone.
C21_EveryDateCheckedOnce ==
  variant \in {"interval_try", "interval_plain"} =>
    \A i \in 1..(Len(checked) - 1) : checked[i + 1] = ToISODate(NextDay(
      [y |-> checked[i][1], m |-> checked[i][2], d |-> checked[i][3]]))

\* the zone's calendar date at the current instant
LocalDate == PlusDays(RefDate(zone), (instant + Offset(zone, instant)) \div 24)

\* C22: the date keys are derived in the configured zone, not in UTC: the
\* key of today and the +7-day key of a check, and the date the GET /health
\* handler reads, are those of the zone's calendar date at that instant.
C22_KeysInConfiguredZone ==
  instant # NoInstant =>
    \A r \in Slots : Active(run[r]) =>
      /\ run[r].todayKey = ToFormatDDMM(LocalDate)
      /\ run[r].in7Key = ToFormatDDMM(PlusDays(LocalDate, HorizonDays))
      /\ (run[r].trigger = "health" => run[r].today = ToISODate(LocalDate))

\* a check reads the clock while the UTC date is not the zone's date
C22_Witness ==
  /\ instant # NoInstant
  /\ UTCDate(zone, instant) # LocalDate
  /\ \E r \in Slots :
       /\ Active(run[r])
       /\ run[r].todayKey = ToFormatDDMM(LocalDate)
       /\ run[r].todayKey # ToFormatDDMM(UTCDate(zone, instant))

\* C25: every result of normalizeDate other than null has exactly five
\* characters: two digits, a dot, two digits.
C25_NormalizedShape ==
  (dpc \in {"normalized", "validated"} /\ ~normalized.isNull) =>
    /\ Len(normalized.str) = 5
    /\ \A i \in {1, 2, 4, 5} : normalized.str[i] \in Digits
    /\ normalized.str[3] = Dot

\* a text of two digits was normalized to a day of January
C25_Witness ==
  /\ dpc = "normalized"
  /\ text = <<1, 2>>
  /\ normalized = Str(<<1, 2, Dot, 0, 1>>)

\* this step is GET /health being handled in slot r
HealthStep(r) ==
  /\ variant = "health"
  /\ triggers' = triggers + 1
  /\ run'[r].rid = triggers + 1

\* the request handled in this step calls checkBirthdays
CallsCheck(r) == run'[r].pc = "read"

\* C26: the once-per-day guard: within one process, once a GET /health
\* request has completed checkBirthdays and set lastCheckDate to a date, no
\* request that starts later on that date calls checkBirthdays, and a
\* request that starts on a date lastCheckDate has not been set to calls it.
C26_OncePerDayGuard ==
  [][\A r \in Slots : HealthStep(r) =>
       (CallsCheck(r) <=> ToISODate(clock) \notin guardedDays)]_vars

\* the DD.MM key of an ISO date
KeyOfISO(iso) == ToFormatDDMM([y |-> iso[1], m |-> iso[2], d |-> iso[3]])

\* C27: the guard date and the matched date agree: when the GET /health
\* handler sets lastCheckDate to a date, the check it has awaited matched
\* the records against the DD.MM key of that date, also when midnight falls
\* between the handler's and the check's reading of the clock.
C27_GuardDateIsMatchedDate ==
  \A r \in Slots :
    (/\ run[r].trigger = "health" /\ run[r].pc = "done"
     /\ run[r].outcome = "returned") =>
      run[r].todayKey = KeyOfISO(run[r].today)

\* C28: every pinged day is checked: in the health-triggered variant, on
\* every date on which a GET /health request is handled a check is started
\* (by that request or by an earlier one of that date), and nothing but a
\* GET /health request starts a check.
C28_EveryPingedDayChecked ==
  [][/\ \A r \in Slots :
          HealthStep(r) => ToISODate(clock) \in startedDays'
     /\ variant = "health" =>
          \A r \in Slots : run'[r].trigger \in {"none", "health"}]_vars

\* the records a run has read that belong to chat c and match the key of kind k
MatchSet(rec, c, k) ==
  {u \in rec.records : u.chat_id = c /\ u.birth_date = KeyOf(k, rec.now)}

\* C29: the content of a message is exactly the match set: the today
\* (reminder) message a run sends to a chat names every record of that chat
\* whose birth_date equals today's (the +7-day) key, names each of them once,
\* and names no record of another chat or of another date.
C29_MessageIsMatchSet ==
  ChatKeyed =>
    \A r \in Slots : \A i \in 1..Len(run[r].sends) :
      LET x == run[r].sends[i]
          M == MatchSet(run[r], x.chat, x.kind)
      IN /\ x.mentions = {u.user_id : u \in M}
         /\ Len(x.names) = Cardinality(M)
         /\ \A u \in M :
              Cardinality({j \in 1..Len(x.names) : x.names[j] = Mention(u)}) = 1

\* a message to a chat names the one matching record of that chat while a
\* record of another chat has the same date
C29_Witness ==
  /\ ChatKeyed
  /\ \E r \in Slots : \E i \in 1..Len(run[r].sends) :
       \E u, w \in run[r].records :
         /\ run[r].sends[i].chat = u.chat_id
         /\ run[r].sends[i].mentions = {u.user_id}
         /\ Len(run[r].sends[i].names) = 1
         /\ w.chat_id # u.chat_id
         /\ w.birth_date = u.birth_date

\* C30: in every message each matching record is referred to by '@' and its
\* username when the record has a username that is neither null nor empty,
\* and by its user_id otherwise; no mention is empty.
C30_MentionFallback ==
  ChatKeyed =>
    \A r \in Slots : \A i \in 1..Len(run[r].sends) :
      LET x == run[r].sends[i] IN
      /\ \A id \in x.mentions :
           LET name == StoredUsername(id)
               ref == IF ~name.isNull /\ name.str # <<>>
                        THEN <<At>> \o name.str
                        ELSE <<UserWord, Space>> \o StringOf(id)
           IN \E j \in 1..Len(x.names) : x.names[j] = ref
      /\ \A j \in 1..Len(x.names) : Len(x.names[j]) >= 2

\* one message names a user by the username and another by the user_id
C30_Witness ==
  /\ ChatKeyed
  /\ \E r \in Slots : \E i \in 1..Len(run[r].sends) :
       /\ run[r].sends[i].mentions = {1, 2}
       /\ run[r].sends[i].names =
            <<(<<At, Letter>>), (<<UserWord, Space, 2>>)>>

\* the users a run names in its messages of kind k to chat c
Named(rec, c, k) ==
  UNION {rec.sends[i].mentions :
           i \in {j \in 1..Len(rec.sends) :
                    rec.sends[j].chat = c /\ rec.sends[j].kind = k}}

\* C31: the kinds are mutually exclusive per record: in one run no record is
\* put into both the today group and the reminder group, and no user is
\* named in both the today message and the reminder message of a chat, in
\* every variant; the two keys of a run are never the same.
C31_KindsExclusive ==
  \A r \in Slots : \A c \in Chats : \A u \in Users :
    /\ run[r].in7Key # NoDate => run[r].in7Key # run[r].todayKey
    /\ ~(/\ <<"today", c, u>> \in run[r].grouped
         /\ <<"reminder", c, u>> \in run[r].grouped)
    /\ u \notin Named(run[r], c, "today") \cap Named(run[r], c, "reminder")

\* a run has sent a chat its today message about one user and its reminder
\* message about another one
C31_Witness ==
  \E r \in Slots : \E c \in Chats : \E u, w \in Users :
    /\ u # w
    /\ Named(run[r], c, "today") = {u}
    /\ Named(run[r], c, "reminder") = {w}

\* ---- a year of daily checks ---------------------------------------------------
\* An interval variant is started on 1 January of a year over one record and
\* keeps running until the check of 31 December has ended; every read and
\* every send succeeds.  The record's date is one of these accepted keys.
YearKeys ==
  { <<2, 9, Dot, 0, 2>>, <<2, 8, Dot, 0, 2>>, <<0, 1, Dot, 0, 3>>,
    <<0, 1, Dot, 0, 1>>, <<0, 7, Dot, 0, 1>>, <<3, 1, Dot, 1, 2>> }

YearStores ==
  {{[user_id |-> 1, chat_id |-> 1, birth_date |-> k]} :
     k \in {x \in YearKeys : isValidDate(x)}}

YearInit ==
  /\ \E y \in CalYears : InitFrom([y |-> y, m |-> 1, d |-> 1], YearStores)
  /\ variant \in {"interval_try", "interval_plain"}
  /\ NoDateCall
  /\ DayGranular

\* setInterval(checkBirthdays, 24 h): the check of the day starts
DailyFire(r) ==
  /\ variant # "health"
  /\ timerDue = clock
  /\ FreeSlot(r)
  /\ triggers' = triggers + 1
  /\ timerDue' = NextDay(clock)
  /\ run' = [run EXCEPT ![r] =
       StartRun(run, r, triggers + 1, "timer", NoDate, clock,
                failedKeys, doneDays)]
  /\ UNCHANGED <<variant, clock, ticks, store, boot, lastCheckDate, floating,
                 log, failedKeys, doneDays, unhandled>>
  /\ UNCHANGED <<dateVars, inputVars, zoneVars, histVars>>

\* midnight passes after the check of the day has ended, until 31 December
Midnight ==
  /\ timerDue = NextDay(clock)
  /\ \A r \in Slots : Free(run[r])
  /\ ~(clock.m = 12 /\ clock.d = 31)
  /\ clock' = NextDay(clock)
  /\ ticks' = ticks + 1
  /\ UNCHANGED <<variant, store, boot, triggers, lastCheckDate, timerDue, run,
                 floating, log, failedKeys, doneDays, unhandled>>
  /\ UNCHANGED <<dateVars, inputVars, zoneVars, histVars>>

YearNext ==
  \/ \E r \in Slots : DailyFire(r)
  \/ \E r \in Slots : ReadSettle(r) /\ ~run'[r].readFailed
  \/ \E r \in Slots : SendSettle(r) /\ failedKeys' = failedKeys
  \/ Midnight

YearSpec == YearInit /\ [][YearNext]_vars

\* the check of 31 December has ended and every day of the year was checked
YearDone ==
  /\ clock.m = 12 /\ clock.d = 31
  /\ \A r \in Slots : Free(run[r])
  /\ Cardinality({d \in doneDays : d.y = clock.y}) = YearLength(clock.y)

\* the messages of a kind that named the user of record u in u's chat
Notifications(u, k) ==
  {e \in log : e.kind = k /\ e.chat = u.chat_id /\ u.user_id \in e.mentions}

\* C32: every accepted date occurs every year: a record whose date key
\* isValidDate accepts, checked on every day of a year, leap or not, gets one
\* today notification and one reminder in that year.
C32_EveryAcceptedDateEveryYear ==
  YearDone =>
    \A u \in store :
      /\ Cardinality(Notifications(u, "today")) = 1
      /\ Cardinality(Notifications(u, "reminder")) = 1

\* no text handler is at an await and no file write is queued
HandlersFinished ==
  /\ \A u \in Users : handlers[u].pc = "idle"
  /\ writes = <<>>

\* C33: no lost update on concurrent submissions: in the lowdb variant, once
\* the text handlers have finished, however they interleaved at db.read()
\* and db.write() with each other and with the check, the persisted data
\* holds a record of every user whose date was saved.
C33_NoLostUpdate ==
  (variant = "lowdb" /\ HandlersFinished) =>
    \A l \in latest : \E rec \in store : rec.user_id = l.user_id

\* C34: normalizeDate returns every DD.MM string that isValidDate accepts
\* unchanged, and applied to any of its results other than null it returns
\* that result again.
C34_NormalizeFixesAccepted ==
  dpc \in {"normalized", "validated"} =>
    /\ (IsDDMM(text) /\ isValidDate(text)) => normalized = Str(text)
    /\ ~normalized.isNull => normalizeDate(normalized.str) = normalized

\* the accepted text 31.12 was normalized to itself and accepted
C34_Witness ==
  /\ dpc = "validated"
  /\ text = <<3, 1, Dot, 1, 2>>
  /\ normalized = Str(text)
  /\ valid

====
